---- MODULE Spec2Model ----
(***************************************************************************)
(* Push-to-talk capture / transcribe / paste pipeline (voice_gui.py and    *)
(* ptt.py).  The module models                                             *)
(*   - the Recorder object and the audio device that calls its callback,   *)
(*   - the pynput listener thread that turns raw key events into edges,    *)
(*   - the Qt event queue of the GUI thread and the App slots that run on  *)
(*     it, including the nested dispatch done by processEvents(),          *)
(*   - the TranscribeWorker thread,                                        *)
(*   - the clipboard and the synthetic paste keystroke.                    *)
(* Specifications:                                                         *)
(*   Spec     the GUI application (class App)                              *)
(*   FairSpec Spec with a fair event loop and fair worker threads          *)
(*   SetSpec  Spec from the default config, with settings changes          *)
(*   RecSpec  the Recorder class driven by an arbitrary single client      *)
(*   CfgSpec  load_config() applied to the possible config files           *)
(*   JobSpec  the application with clipboard output, with changes of the   *)
(*            model, the language and the VAD flag                         *)
(*   KeySpec  the application with two keys and changes of the hotkey      *)
(*   LisSpec  the HotkeyListener class with three keys and set_hotkey      *)
(*   PttSpec  the command-line program ptt.py                              *)
(***************************************************************************)
EXTENDS Integers, Sequences, FiniteSets, TLC

\* ------------------------------------------------------------------ bounds
\* audio blocks the device delivers in one run
MaxBlocks == 2
\* failures injected in one run (stream, model load, key injection, clone,
\* config save)
MaxFaults == 1
\* pending events in the GUI thread's queue
MaxQueue == 2
\* slots active at once: 1 is the event loop's own dispatch, more is a
\* dispatch nested inside processEvents()
MaxDepth == 2

VARIABLES
    rec,          \* the Recorder object: _recording, _frames, _stream
    dev,          \* the audio device: which streams still deliver blocks
    nblocks,      \* blocks delivered so far (block k carries sample k)
    faults,       \* failures injected so far
    ghost,        \* history of the capture windows (not program state)
    client,       \* RecSpec, CfgSpec: the caller of the function under test
    held,         \* keys physically down
    hotkey,       \* HotkeyListener._hotkey
    queue,        \* events posted to the GUI thread, oldest first
    stack,        \* slots of App that have not returned, innermost first
    cfg,          \* App.cfg
    transcribing, \* App._transcribing
    model,        \* App._model: "none" or the model name it was built from
    workers,      \* TranscribeWorker threads that have not emitted yet
    indicator,    \* Overlay.indicator._mode
    clipboard,    \* the system clipboard: a set of <<format, data>>
    keys,         \* synthetic paste keystrokes sent so far
    notes,        \* tray notifications shown so far, oldest first
    disk          \* the persisted config file

recvars == <<rec, dev, nblocks, faults, ghost, client>>
appvars == <<held, hotkey, queue, stack, cfg, transcribing, model, workers,
             indicator, clipboard, keys, notes, disk>>
vars == <<rec, dev, nblocks, faults, ghost, client, held, hotkey, queue, stack,
          cfg, transcribing, model, workers, indicator, clipboard, keys, notes,
          disk>>

\* ---------------------------------------------------------------- Recorder
\* Recorder.__init__
RecorderInit == [recording |-> FALSE, frames |-> <<>>, stream |-> "none"]

\* the block the device hands to the k-th callback invocation
Block(k) == <<k>>

RECURSIVE Concatenate(_)
\* np.concatenate(self._frames, axis=0).reshape(-1)
Concatenate(blocks) ==
    IF blocks = <<>> THEN <<>> ELSE Head(blocks) \o Concatenate(Tail(blocks))

\* start() without its "if self._recording: return"
StartNeverReturnsEarly(r) == FALSE

\* start(): "if self._recording: return"
StartReturnsEarly(r) == r.recording

\* start() without its "self._frames = []"
StartMarkKeepsFrames(r) == [r EXCEPT !.recording = TRUE]

\* start(): the rest of the locked section
StartMark(r) == [r EXCEPT !.frames = <<>>, !.recording = TRUE]

\* start(): self._stream = sd.InputStream(...); self._stream.start()
\*   "ok"         both calls return
\*   "ctor_fail"  InputStream(...) raises: _stream keeps its old value
\*   "start_fail" stream.start() raises: _stream is the new, idle stream
StartOpen(r, outcome) ==
    IF outcome = "ctor_fail" THEN r ELSE [r EXCEPT !.stream = "open"]

\* _callback without its "if self._recording"
CallbackUnchecked(r, block) == [r EXCEPT !.frames = Append(@, block)]

\* _callback: append the block if the flag is set, under the lock
Callback(r, block) ==
    IF r.recording THEN [r EXCEPT !.frames = Append(@, block)] ELSE r

\* stop(): "if not self._recording: return np.zeros(0)"
StopReturnsEarly(r) == ~r.recording

\* stop() that leaves the flag set until the stream is closed
StopMarkKeepsFlag(r) == r

\* stop(): the rest of the first locked section
StopMark(r) == [r EXCEPT !.recording = FALSE]

\* stop(): stream.stop(); stream.close(); self._stream = None
StopStream(r) == [r EXCEPT !.stream = "none"]

\* stop(): the value returned from the second locked section
StopResult(r) == Concatenate(r.frames)

\* stop(): the second locked section's effect on the object
StopDrain(r) == [r EXCEPT !.frames = <<>>]

\* ------------------------------------------------------------ audio device
DevInit == [cur |-> FALSE, leak |-> FALSE]

\* a stream that start() opened: a running stream whose reference is
\* overwritten keeps running with nobody left to stop it
DevAfterOpen(d, r, outcome) ==
    IF outcome = "ctor_fail" THEN d
    ELSE [cur |-> outcome = "ok", leak |-> d.leak \/ (r.stream = "open" /\ d.cur)]

\* ------------------------------------------------------------------- ghost
\* open: between an effective start() and the stop() that ends it
\* win:  the blocks delivered while open (kept until the next window opens)
\* prev: the samples of the windows closed before the current one opened
\* err:  some stream call has raised
GhostInit == [open |-> FALSE, win |-> <<>>, prev |-> {}, err |-> FALSE]

Range(s) == {s[i] : i \in DOMAIN s}

GhostStart(g) ==
    IF g.open THEN g
    ELSE [g EXCEPT !.open = TRUE, !.win = <<>>,
                   !.prev = @ \cup Range(Concatenate(g.win))]

GhostStop(g) == [g EXCEPT !.open = FALSE]

GhostBlock(g, block) == IF g.open THEN [g EXCEPT !.win = Append(@, block)] ELSE g

GhostErr(g) == [g EXCEPT !.err = TRUE]

\* ------------------------------------------------- the audio-callback thread
AudioCallback ==
    /\ dev.cur \/ dev.leak
    /\ nblocks < MaxBlocks
    /\ nblocks' = nblocks + 1
    /\ rec' = Callback(rec, Block(nblocks + 1))
    /\ ghost' = GhostBlock(ghost, Block(nblocks + 1))
    /\ UNCHANGED <<dev, faults, client>>
    /\ UNCHANGED appvars

\* --------------------------------------------- RecSpec: a client of Recorder
\* op: the last call that completed and how; res: what stop() returned
ClientInit == [pc |-> "idle", op |-> "none", res |-> <<>>]

ClientStart ==
    /\ client.pc = "idle"
    /\ ghost' = GhostStart(ghost)
    /\ IF StartReturnsEarly(rec)
         THEN /\ client' = [client EXCEPT !.op = "start_noop"]
              /\ rec' = rec
         ELSE /\ client' = [client EXCEPT !.pc = "open", !.op = "none"]
              /\ rec' = StartMark(rec)
    /\ UNCHANGED <<dev, nblocks, faults>>
    /\ UNCHANGED appvars

ClientStartOpen ==
    /\ client.pc = "open"
    /\ \E outcome \in {"ok", "ctor_fail", "start_fail"} :
         /\ outcome # "ok" => faults < MaxFaults
         /\ faults' = IF outcome = "ok" THEN faults ELSE faults + 1
         /\ rec' = StartOpen(rec, outcome)
         /\ dev' = DevAfterOpen(dev, rec, outcome)
         /\ ghost' = IF outcome = "ok" THEN ghost ELSE GhostErr(ghost)
         /\ client' = [client EXCEPT !.pc = "idle",
                          !.op = IF outcome = "ok" THEN "start" ELSE "start_err"]
    /\ UNCHANGED nblocks
    /\ UNCHANGED appvars

ClientStop ==
    /\ client.pc = "idle"
    /\ IF StopReturnsEarly(rec)
         THEN /\ client' = [client EXCEPT !.op = "stop_noop", !.res = <<>>]
              /\ rec' = rec
              /\ ghost' = ghost
         ELSE /\ client' = [client EXCEPT !.pc = "halt", !.op = "none"]
              /\ rec' = StopMark(rec)
              /\ ghost' = GhostStop(ghost)
    /\ UNCHANGED <<dev, nblocks, faults>>
    /\ UNCHANGED appvars

ClientStopHalt ==
    /\ client.pc = "halt"
    /\ \/ /\ rec.stream = "none"
          /\ client' = [client EXCEPT !.pc = "idle", !.op = "stop", !.res = StopResult(rec)]
          /\ rec' = StopDrain(rec)
          /\ UNCHANGED <<dev, faults, ghost>>
       \/ /\ rec.stream # "none"
          /\ client' = [client EXCEPT !.pc = "idle", !.op = "stop",
                                      !.res = StopResult(StopStream(rec))]
          /\ rec' = StopDrain(StopStream(rec))
          /\ dev' = [dev EXCEPT !.cur = FALSE]
          /\ UNCHANGED <<faults, ghost>>
       \/ /\ rec.stream # "none"
          /\ faults < MaxFaults
          /\ faults' = faults + 1
          /\ client' = [client EXCEPT !.pc = "idle", !.op = "stop_err"]
          /\ \E still \in {FALSE, dev.cur} : dev' = [dev EXCEPT !.cur = still]
          /\ ghost' = GhostErr(ghost)
          /\ UNCHANGED rec
    /\ UNCHANGED nblocks
    /\ UNCHANGED appvars

\* ------------------------------------------------------------- transcripts
\* the word the engine hears in a recording: recordings that begin with the
\* first block delivered say "a", the others say "b"
Word(audio) == IF audio # <<>> /\ Head(audio) = Head(Block(1)) THEN "a" ELSE "b"

\* what the engine may return for a recording, before any trimming: nothing,
\* white space, or the word with or without white space around it
RawTexts(audio) ==
    {<<>>, <<" ">>, <<Word(audio)>>, <<" ", Word(audio), " ">>}

RECURSIVE LStrip(_)
LStrip(t) == IF t # <<>> /\ Head(t) = " " THEN LStrip(Tail(t)) ELSE t

RECURSIVE RStrip(_)
RStrip(t) ==
    IF t # <<>> /\ t[Len(t)] = " " THEN RStrip(SubSeq(t, 1, Len(t) - 1)) ELSE t

\* str.strip()
Strip(t) == RStrip(LStrip(t))

\* ------------------------------------------------------------ configuration
\* the keys the keyboard sends
Keys == {"f9"}

\* AppConfig(): the field defaults of the dataclass (window_pos None is "none")
DefaultCfg ==
    [hotkey |-> "f9", model |-> "base", language |-> "auto", device |-> "cpu",
     compute_type |-> "int8", output_mode |-> "paste", preserve_clipboard |-> TRUE,
     vad_filter |-> FALSE, always_on_top |-> TRUE, show_bar |-> TRUE,
     remember_position |-> FALSE, window_pos |-> "none"]

\* AppConfig.__annotations__
ConfigFields == DOMAIN DefaultCfg

\* the keys a persisted JSON object may carry here: fields of AppConfig, the
\* legacy field of older versions and a field AppConfig does not know
ObjKeys == {"hotkey", "model", "output_mode", "show_bar", "paste_after_copy", "junk"}

\* the value a persisted object holds for a key; b is the legacy boolean
ObjValue(k, b) ==
    CASE k = "hotkey" -> "f8"
      [] k = "model" -> "small"
      [] k = "output_mode" -> "clipboard"
      [] k = "show_bar" -> FALSE
      [] k = "paste_after_copy" -> b
      [] OTHER -> "x"

NoObj == [k \in {} |-> "x"]

\* what json.load may return: null, a number, a string, a list, an object
JsonValues ==
    {[t |-> ty, o |-> NoObj] : ty \in {"null", "num", "str", "list"}}
      \cup {[t |-> "obj", o |-> [k \in ks |-> ObjValue(k, b)]] :
               ks \in SUBSET ObjKeys, b \in BOOLEAN}

\* the states of the config file: absent, not readable (a directory, no
\* permission, not UTF-8), not JSON, or JSON text
Files ==
    {[kind |-> kd, raw |-> [t |-> "null", o |-> NoObj]] :
        kd \in {"missing", "unreadable", "invalid"}}
      \cup {[kind |-> "json", raw |-> v] : v \in JsonValues}

\* load_config with the migration applied whenever the legacy field is there
MigrateOverrides(o) ==
    IF "paste_after_copy" \in DOMAIN o
      THEN [k \in DOMAIN o \cup {"output_mode"} |->
              IF k = "output_mode"
                THEN (IF o["paste_after_copy"] THEN "paste" ELSE "clipboard")
                ELSE o[k]]
      ELSE o

\* load_config: the migration of older configs, on a dict
Migrate(o) ==
    IF "output_mode" \notin DOMAIN o /\ "paste_after_copy" \in DOMAIN o
      THEN [k \in DOMAIN o \cup {"output_mode"} |->
              IF k = "output_mode"
                THEN (IF o["paste_after_copy"] THEN "paste" ELSE "clipboard")
                ELSE o[k]]
      ELSE o

\* AppConfig(**{k: raw[k] for k in raw.keys() if k in AppConfig.__annotations__})
FromDict(o) ==
    [k \in ConfigFields |-> IF k \in DOMAIN o THEN o[k] ELSE DefaultCfg[k]]

\* load_config: the body of the try block; exc is the exception it ends
\* with, "none" when it returns cfg
\*   open() of a missing file raises FileNotFoundError, of an unreadable
\*   one OSError or UnicodeDecodeError; json.load raises JSONDecodeError;
\*   "in" on null or a number raises TypeError; a string or a list passes
\*   the "in" tests and has no keys(): AttributeError
LoadBody(file) ==
    CASE file.kind = "missing" -> [exc |-> "FileNotFoundError", cfg |-> DefaultCfg]
      [] file.kind = "unreadable" -> [exc |-> "OSError", cfg |-> DefaultCfg]
      [] file.kind = "invalid" -> [exc |-> "JSONDecodeError", cfg |-> DefaultCfg]
      [] OTHER ->
           CASE file.raw.t \in {"null", "num"} -> [exc |-> "TypeError", cfg |-> DefaultCfg]
             [] file.raw.t \in {"str", "list"} -> [exc |-> "AttributeError", cfg |-> DefaultCfg]
             [] OTHER -> [exc |-> "none", cfg |-> FromDict(Migrate(file.raw.o))]

\* load_config with "except FileNotFoundError" alone
CaughtOnlyMissing(exc) == exc = "FileNotFoundError"

\* the exception classes above that derive from Exception
ExceptionClasses ==
    {"FileNotFoundError", "OSError", "JSONDecodeError", "TypeError", "AttributeError"}

\* load_config: "except FileNotFoundError" and "except Exception"
Caught(exc) == exc = "FileNotFoundError" \/ exc \in ExceptionClasses

\* load_config(): raised tells whether an exception leaves the function
LoadConfig(file) ==
    LET r == LoadBody(file) IN
      IF r.exc = "none" THEN [raised |-> FALSE, cfg |-> r.cfg]
      ELSE IF Caught(r.exc) THEN [raised |-> FALSE, cfg |-> DefaultCfg]
      ELSE [raised |-> TRUE, cfg |-> DefaultCfg]

\* save_config: json.dump(asdict(cfg))
SaveConfig(c) == [kind |-> "json", raw |-> [t |-> "obj", o |-> c]]

\* load_config(): the configurations the application may start with
Configs ==
    {[DefaultCfg EXCEPT !.output_mode = m, !.preserve_clipboard = p, !.show_bar = b] :
        m \in {"paste", "clipboard"}, p \in BOOLEAN, b \in BOOLEAN}

\* on_transcribed without its "if mode == 'clipboard'" branch
OutputModeAlwaysPaste(c) == "paste"

\* on_transcribed: mode = (cfg.output_mode or "paste").strip().lower(),
\* then "clipboard" or anything else
OutputMode(c) == IF c.output_mode = "clipboard" THEN "clipboard" ELSE "paste"

\* --------------------------------------------------------------- clipboard
\* what the clipboard may hold when the application starts
Clipboards == {{}, {<<"text/plain", <<"o">>>>, <<"text/html", <<"o">>>>}}

\* QClipboard.setText
SetText(t) == {<<"text/plain", t>>}

\* _clone_mime_data: every format is copied except those whose copy raised
CloneMimeData(md, lost) == md \ lost

\* ------------------------------------------------------------ the overlay
\* "if self.cfg.show_bar: self.overlay.set_state_<mode>()"
ShowState(c, ind, mode) == IF c.show_bar THEN mode ELSE ind

\* the stop button is shown by set_state_recording and hidden by the others,
\* and the overlay itself is shown while show_bar is set
StopButtonVisible == cfg.show_bar /\ indicator = "rec"

\* ---------------------------------------------------- the GUI thread's queue
Msg(kind, text) == [kind |-> kind, text |-> text]

CanPost == Len(queue) < MaxQueue

\* the event loop, or a processEvents() call of the innermost slot, is ready
\* to deliver the oldest pending event
CanDispatch(kind) ==
    /\ queue # <<>>
    /\ Head(queue).kind = kind
    /\ IF stack = <<>> THEN TRUE ELSE Head(stack).pc \in {"pe1", "pe2"}

CanPush == Len(stack) < MaxDepth

\* h, pc: the slot and where it stands; old: old_md of _paste_transcript, held
\* when saved; text: the text argument of _paste_transcript.  History only:
\* before, the clipboard as the slot found it, and log, the output steps
\* the slot has taken so far
Frame(h, pc, old, saved, before) ==
    [h |-> h, pc |-> pc, old |-> old, saved |-> saved, before |-> before,
     text |-> <<>>, log |-> <<>>]

\* _send_paste_shortcut: with ctl.pressed(mod): ctl.press("v"); ctl.release("v")
Keystroke == <<"mod_down", "v_down", "v_up", "mod_up">>

\* a press or release raised and the exception was swallowed; which key
\* events went out before it is not recorded
BrokenKeystroke == <<"keys_raised">>

\* _paste_transcript up to its first processEvents() and sleep
LogToSettle(saved) ==
    (IF saved THEN <<"snapshot">> ELSE <<>>) \o <<"write", "settle">>

Push(f) == <<f>> \o stack

Top == Head(stack)

\* --------------------------------------------------- the listener thread
\* the keys of the keyboard here, each named as pynput prints it: the named
\* keys Key.f9 and Key.f8 and the character key KeyCode.from_char("a")
NamedKeys == {"f9", "f8"}

CharKeys == {"a"}

RawKeys == NamedKeys \cup CharKeys

\* the strings a hotkey may be configured as: names of the keys above, the
\* empty string, a name in upper case and a name keyboard.Key does not have
HotkeyStrings == RawKeys \cup {"", "F8", "bogus"}

\* s.strip().lower() on the strings above
Lower(s) == IF s = "F8" THEN "f8" ELSE s

\* _string_to_key: the empty string and the names keyboard.Key does not
\* have give Key.f9
StringToKey(s) ==
    LET t == Lower(s) IN
      IF t = "" THEN "f9"
      ELSE IF t \in CharKeys THEN t
      ELSE IF t \in NamedKeys THEN t
      ELSE "f9"

\* on_press and on_release closures that compare with the key the listener
\* was constructed with
MatchesInitialKey(k) == k = "f9"

\* "k == self._hotkey", read when the event is handled
Matches(k) == k = hotkey

\* HotkeyListener.start.on_press, for a key-down or an auto-repeat of k
KeyDown(k) ==
    /\ held' = held \cup {k}
    /\ IF Matches(k)
         THEN CanPost /\ queue' = Append(queue, Msg("pressed", <<>>))
         ELSE queue' = queue
    /\ UNCHANGED <<disk, hotkey, stack, cfg, transcribing, model, workers, indicator,
                   clipboard, keys, notes>>
    /\ UNCHANGED recvars

\* HotkeyListener.start.on_release
KeyUp(k) ==
    /\ k \in held
    /\ held' = held \ {k}
    /\ IF Matches(k)
         THEN CanPost /\ queue' = Append(queue, Msg("released", <<>>))
         ELSE queue' = queue
    /\ UNCHANGED <<disk, hotkey, stack, cfg, transcribing, model, workers, indicator,
                   clipboard, keys, notes>>
    /\ UNCHANGED recvars

\* a click on the overlay's stop button: stop_requested
StopClick ==
    /\ StopButtonVisible
    /\ CanPost
    /\ queue' = Append(queue, Msg("stop", <<>>))
    /\ UNCHANGED <<disk, held, hotkey, stack, cfg, transcribing, model, workers, indicator,
                   clipboard, keys, notes>>
    /\ UNCHANGED recvars

\* ------------------------------------------------------- App.on_ptt_pressed
\* on_ptt_pressed without its "if self._transcribing: return"
PressedIgnoredNotBusy == rec.recording

\* on_ptt_pressed with neither of its guards
PressedNeverIgnored == FALSE

\* the guards of on_ptt_pressed
PressedIgnored == transcribing \/ rec.recording

\* on_ptt_pressed up to the end of the locked section of recorder.start()
OnPttPressed ==
    /\ CanDispatch("pressed")
    /\ queue' = Tail(queue)
    /\ IF PressedIgnored
         THEN UNCHANGED <<rec, ghost, stack, indicator>>
         ELSE IF StartReturnsEarly(rec)
           THEN /\ indicator' = ShowState(cfg, indicator, "rec")
                /\ UNCHANGED <<rec, ghost, stack>>
           ELSE /\ CanPush
                /\ rec' = StartMark(rec)
                /\ ghost' = GhostStart(ghost)
                /\ stack' = Push(Frame("pressed", "open", {}, FALSE, {}))
                /\ UNCHANGED indicator
    /\ UNCHANGED <<dev, nblocks, faults, client>>
    /\ UNCHANGED <<disk, held, hotkey, cfg, transcribing, model, workers,
                   clipboard, keys, notes>>

\* on_ptt_pressed from the stream calls of recorder.start() to its return
PressedOpen ==
    /\ stack # <<>>
    /\ Top.pc = "open"
    /\ stack' = Tail(stack)
    /\ \E outcome \in {"ok", "ctor_fail", "start_fail"} :
         /\ outcome # "ok" => faults < MaxFaults
         /\ faults' = IF outcome = "ok" THEN faults ELSE faults + 1
         /\ rec' = StartOpen(rec, outcome)
         /\ dev' = DevAfterOpen(dev, rec, outcome)
         /\ ghost' = IF outcome = "ok" THEN ghost ELSE GhostErr(ghost)
         /\ indicator' = ShowState(cfg, indicator, IF outcome = "ok" THEN "rec" ELSE "idle")
         /\ notes' = IF outcome = "ok" THEN notes ELSE Append(notes, "mic")
    /\ UNCHANGED <<nblocks, client>>
    /\ UNCHANGED <<disk, held, hotkey, queue, cfg, transcribing, model, workers,
                   clipboard, keys>>

\* ------------------------------------------------------ App.on_ptt_released
\* on_ptt_released without its "if not self.recorder.recording: return"
ReleasedNeverIgnored == FALSE

\* the guard of on_ptt_released, which on_stop_requested repeats before it
\* calls on_ptt_released
ReleasedIgnored == ~rec.recording

\* on_stop_requested that never calls on_ptt_released
StopAlwaysIgnored == TRUE

\* on_stop_requested: "if self.recorder.recording" fails
StopIgnored == ~rec.recording

\* on_ptt_released without its "if audio.size == 0" return
EmptySnapshotAccepted(audio) == FALSE

\* "if audio.size == 0"
EmptySnapshot(audio) == Len(audio) = 0

\* "if self._transcribing" after the snapshot was taken
Busy == transcribing

\* _get_model(): the instance in use after a successful call
GetModel(m, c) == IF m = "none" THEN c.model ELSE m

\* TranscribeWorker(model, audio, self.cfg): the worker holds the engine
\* instance, the audio and a reference to the config object; cfg is what that
\* object holds, shared tells that it is still the object self.cfg names
Job(m, audio, c) == [audio |-> audio, model |-> m, cfg |-> c, shared |-> TRUE]

\* on_ptt_released without its "self._transcribing = True"
StartWorkerNoFlag(audio) ==
    /\ transcribing' = transcribing
    /\ indicator' = ShowState(cfg, indicator, "work")
    /\ model' = GetModel(model, cfg)
    /\ workers' = workers \cup {Job(GetModel(model, cfg), audio, cfg)}

\* on_ptt_released: the flag, the indicator, the model and the worker thread
\* when the model is there or loads
StartWorker(audio) ==
    /\ transcribing' = TRUE
    /\ indicator' = ShowState(cfg, indicator, "work")
    /\ model' = GetModel(model, cfg)
    /\ workers' = workers \cup {Job(GetModel(model, cfg), audio, cfg)}

\* on_ptt_released whose "except" of the model load returns with the flag
\* still set
ModelLoadFailedKeepsFlag ==
    /\ transcribing' = TRUE
    /\ notes' = Append(notes, "model")
    /\ indicator' = ShowState(cfg, indicator, "idle")
    /\ UNCHANGED <<model, workers>>

\* on_ptt_released when _get_model() raises: "self._model = WhisperModel(...)"
\* never assigns, the flag is taken back, the failure is reported
ModelLoadFailed ==
    /\ transcribing' = FALSE
    /\ notes' = Append(notes, "model")
    /\ indicator' = ShowState(cfg, indicator, "idle")
    /\ UNCHANGED <<model, workers>>

\* on_ptt_released after recorder.stop() returned audio
ReleasedSubmit(audio) ==
    IF EmptySnapshot(audio) \/ Busy
      THEN /\ indicator' = ShowState(cfg, indicator, "idle")
           /\ UNCHANGED <<transcribing, model, workers, notes, faults>>
      ELSE \/ /\ StartWorker(audio)
              /\ UNCHANGED <<notes, faults>>
           \/ /\ model = "none"
              /\ faults < MaxFaults
              /\ faults' = faults + 1
              /\ ModelLoadFailed

\* on_ptt_released / on_stop_requested up to the end of the first locked
\* section of recorder.stop(), or to the slot's return when it goes no further
OnPttReleased(kind) ==
    /\ CanDispatch(kind)
    /\ queue' = Tail(queue)
    /\ IF (kind = "stop" /\ StopIgnored) \/ ReleasedIgnored
         THEN UNCHANGED <<rec, ghost, stack, transcribing, model, workers,
                          indicator, notes, faults>>
         ELSE IF StopReturnsEarly(rec)
           THEN /\ ReleasedSubmit(<<>>)
                /\ UNCHANGED <<rec, ghost, stack>>
           ELSE /\ CanPush
                /\ rec' = StopMark(rec)
                /\ ghost' = GhostStop(ghost)
                /\ stack' = Push(Frame("released", "halt", {}, FALSE, {}))
                /\ UNCHANGED <<transcribing, model, workers, indicator, notes, faults>>
    /\ UNCHANGED <<dev, nblocks, client>>
    /\ UNCHANGED <<disk, held, hotkey, cfg, clipboard, keys>>

\* on_ptt_released from the stream calls of recorder.stop() to its return
ReleasedHalt ==
    /\ stack # <<>>
    /\ Top.pc = "halt"
    /\ stack' = Tail(stack)
    /\ \/ /\ rec.stream = "none"
          /\ rec' = StopDrain(rec)
          /\ ReleasedSubmit(StopResult(rec))
          /\ UNCHANGED <<dev, ghost>>
       \/ /\ rec.stream # "none"
          /\ rec' = StopDrain(StopStream(rec))
          /\ dev' = [dev EXCEPT !.cur = FALSE]
          /\ ReleasedSubmit(StopResult(StopStream(rec)))
          /\ UNCHANGED ghost
       \/ /\ rec.stream # "none"
          /\ faults < MaxFaults
          /\ faults' = faults + 1
          /\ \E still \in {FALSE, dev.cur} : dev' = [dev EXCEPT !.cur = still]
          /\ ghost' = GhostErr(ghost)
          /\ UNCHANGED <<rec, transcribing, model, workers, indicator, notes>>
    /\ UNCHANGED <<nblocks, client>>
    /\ UNCHANGED <<disk, held, hotkey, queue, cfg, clipboard, keys>>

\* ----------------------------------------------------- TranscribeWorker.run
\* run() with "except Exception: pass" in place of the failed.emit
WorkerRunSwallowsFailure ==
    /\ CanPost
    /\ \E job \in workers :
         /\ workers' = workers \ {job}
         /\ \/ \E raw \in RawTexts(job.audio) :
                 queue' = Append(queue, Msg("finished", Strip(raw)))
            \/ queue' = queue
    /\ UNCHANGED <<disk, held, hotkey, stack, cfg, transcribing, model, indicator,
                   clipboard, keys, notes>>
    /\ UNCHANGED recvars

\* run(): the engine call returns and finished is emitted, or it raises and
\* failed is emitted
WorkerRun ==
    /\ CanPost
    /\ \E job \in workers :
         /\ workers' = workers \ {job}
         /\ \/ \E raw \in RawTexts(job.audio) :
                 queue' = Append(queue, Msg("finished", Strip(raw)))
            \/ queue' = Append(queue, Msg("failed", <<>>))
    /\ UNCHANGED <<disk, held, hotkey, stack, cfg, transcribing, model, indicator,
                   clipboard, keys, notes>>
    /\ UNCHANGED recvars

\* -------------------------------------------------------- App.on_transcribed
\* on_transcribed up to its return or, in paste mode, up to the first
\* processEvents() of _paste_transcript
OnTranscribed ==
    /\ CanDispatch("finished")
    /\ queue' = Tail(queue)
    /\ transcribing' = FALSE
    /\ LET text == Strip(Head(queue).text) IN
         IF text = <<>>
           THEN /\ notes' = Append(notes, "nospeech")
                /\ indicator' = ShowState(cfg, indicator, "idle")
                /\ UNCHANGED <<clipboard, stack, faults>>
           ELSE IF OutputMode(cfg) = "clipboard"
             THEN /\ clipboard' = SetText(text)
                  /\ indicator' = ShowState(cfg, indicator, "idle")
                  /\ UNCHANGED <<notes, stack, faults>>
             ELSE /\ CanPush
                  /\ clipboard' = SetText(text)
                  /\ \E lost \in SUBSET clipboard :
                       /\ lost # {} => cfg.preserve_clipboard /\ faults < MaxFaults
                       /\ faults' = IF lost = {} THEN faults ELSE faults + 1
                       /\ stack' = Push([Frame("finished", "pe1",
                                     IF cfg.preserve_clipboard
                                       THEN CloneMimeData(clipboard, lost) ELSE {},
                                     cfg.preserve_clipboard, clipboard)
                                       EXCEPT !.text = text,
                                              !.log = LogToSettle(cfg.preserve_clipboard)])
                  /\ UNCHANGED <<notes, indicator>>
    /\ UNCHANGED <<rec, dev, nblocks, ghost, client>>
    /\ UNCHANGED <<disk, held, hotkey, cfg, model, workers, keys>>

\* _paste_transcript from the return of its first processEvents(): the
\* paste shortcut and, with a snapshot, the restore
\*   "ok"         the keystroke is sent
\*   "ctl_fail"   keyboard.Controller() raises, outside the try block
\*   "key_fail"   a press or release raises inside the try block
PasteSend ==
    /\ stack # <<>>
    /\ Top.pc = "pe1"
    /\ \E outcome \in {"ok", "ctl_fail", "key_fail"} :
         /\ outcome # "ok" => faults < MaxFaults
         /\ faults' = IF outcome = "ok" THEN faults ELSE faults + 1
         /\ keys' = IF outcome = "ok" THEN keys + 1 ELSE keys
         /\ IF outcome = "ctl_fail"
              THEN /\ stack' = Tail(stack)
                   /\ UNCHANGED <<clipboard, indicator>>
              ELSE IF Top.saved
                THEN /\ clipboard' = Top.old
                     /\ stack' = <<[Top EXCEPT !.pc = "pe2",
                                    !.log = @ \o (IF outcome = "ok" THEN Keystroke
                                                                    ELSE BrokenKeystroke)
                                              \o <<"settle", "restore">>]>>
                                  \o Tail(stack)
                     /\ UNCHANGED indicator
                ELSE /\ stack' = Tail(stack)
                     /\ indicator' = ShowState(cfg, indicator, "idle")
                     /\ UNCHANGED clipboard
    /\ UNCHANGED <<rec, dev, nblocks, ghost, client>>
    /\ UNCHANGED <<disk, held, hotkey, queue, cfg, transcribing, model, workers, notes>>

\* on_transcribed from the return of the second processEvents()
PasteDone ==
    /\ stack # <<>>
    /\ Top.pc = "pe2"
    /\ stack' = Tail(stack)
    /\ indicator' = ShowState(cfg, indicator, "idle")
    /\ UNCHANGED <<disk, held, hotkey, queue, cfg, transcribing, model, workers,
                   clipboard, keys, notes>>
    /\ UNCHANGED recvars

\* --------------------------------------------------- App.on_transcribe_failed
\* on_transcribe_failed without its "self._transcribing = False"
OnTranscribeFailedKeepsFlag ==
    /\ CanDispatch("failed")
    /\ queue' = Tail(queue)
    /\ notes' = Append(notes, "asr")
    /\ indicator' = ShowState(cfg, indicator, "idle")
    /\ UNCHANGED <<disk, held, hotkey, stack, cfg, transcribing, model, workers, clipboard, keys>>
    /\ UNCHANGED recvars

OnTranscribeFailed ==
    /\ CanDispatch("failed")
    /\ queue' = Tail(queue)
    /\ transcribing' = FALSE
    /\ notes' = Append(notes, "asr")
    /\ indicator' = ShowState(cfg, indicator, "idle")
    /\ UNCHANGED <<disk, held, hotkey, stack, cfg, model, workers, clipboard, keys>>
    /\ UNCHANGED recvars

\* ---------------------------------------------------------- specifications
AppInit ==
    /\ held = {}
    /\ hotkey = StringToKey(DefaultCfg.hotkey)
    /\ queue = <<>>
    /\ stack = <<>>
    /\ transcribing = FALSE
    /\ model = "none"
    /\ workers = {}
    /\ indicator = "idle"
    /\ keys = 0
    /\ notes = <<>>

Init ==
    /\ rec = RecorderInit
    /\ dev = DevInit
    /\ nblocks = 0
    /\ faults = 0
    /\ ghost = GhostInit
    /\ client = ClientInit
    /\ AppInit
    /\ cfg \in Configs
    /\ disk = SaveConfig(cfg)
    /\ clipboard \in Clipboards

Next ==
    \/ \E k \in Keys : KeyDown(k)
    \/ \E k \in Keys : KeyUp(k)
    \/ StopClick
    \/ AudioCallback
    \/ OnPttPressed
    \/ PressedOpen
    \/ OnPttReleased("released")
    \/ OnPttReleased("stop")
    \/ ReleasedHalt
    \/ WorkerRun
    \/ OnTranscribed
    \/ PasteSend
    \/ PasteDone
    \/ OnTranscribeFailed

Spec == Init /\ [][Next]_vars

\* the GUI thread's event loop keeps dispatching and every slot that was
\* entered runs to its end; a worker thread that was started gets to emit
\* (the real event queue is unbounded, so the emit is never refused for
\* good).  Key events, stop clicks and audio blocks are the environment's.
Fairness ==
    /\ WF_vars(OnPttPressed)
    /\ WF_vars(PressedOpen)
    /\ WF_vars(OnPttReleased("released"))
    /\ WF_vars(OnPttReleased("stop"))
    /\ WF_vars(ReleasedHalt)
    /\ WF_vars(OnTranscribed)
    /\ WF_vars(PasteSend)
    /\ WF_vars(PasteDone)
    /\ WF_vars(OnTranscribeFailed)
    /\ SF_vars(WorkerRun)

FairSpec == Init /\ [][Next]_vars /\ Fairness

RecInit ==
    /\ rec = RecorderInit
    /\ dev = DevInit
    /\ nblocks = 0
    /\ faults = 0
    /\ ghost = GhostInit
    /\ client = ClientInit
    /\ AppInit
    /\ cfg = DefaultCfg
    /\ disk = SaveConfig(cfg)
    /\ clipboard = {}

RecNext ==
    \/ ClientStart
    \/ ClientStartOpen
    \/ ClientStop
    \/ ClientStopHalt
    \/ AudioCallback

RecSpec == RecInit /\ [][RecNext]_vars

\* ------------------------------------------- SetSpec: settings changes
\* the model names the settings dialog offers here
Models == {"base", "small"}

\* the language hints the settings dialog offers here
Languages == {"auto", "en"}

\* SettingsDialog.updated_config(): a new config object; the dialog changes
\* the model and the show-bar box here and leaves the other fields as they
\* are
SettingsChoices(c) ==
    {[c EXCEPT !.model = m, !.show_bar = b] : m \in Models, b \in BOOLEAN}

\* SettingsDialog.updated_config(): a new config object; the dialog changes
\* the model, the language and the VAD box here
SpeechChoices(c) ==
    {[c EXCEPT !.model = m, !.language = l, !.vad_filter = v] :
        m \in Models, l \in Languages, v \in BOOLEAN}

\* show_settings that writes the dialog's values into the object self.cfg
\* names, as toggle_bar does with show_bar
RebindInPlace(ws) == {[job EXCEPT !.cfg = cfg'] : job \in ws}

\* "self.cfg = new_cfg": the workers keep the object self.cfg named before
Unshare(ws) == {[job EXCEPT !.shared = FALSE] : job \in ws}

\* "self.cfg.show_bar = ...": the object is changed in place, and with it
\* what every worker that holds it sees
SetShowBar(ws, checked) ==
    {IF job.shared THEN [job EXCEPT !.cfg.show_bar = checked] ELSE job : job \in ws}

\* save_config that raises: open() failed and the file is as it was, or
\* the file was truncated and the dump did not complete
FailedSave(d) == {d, [kind |-> "invalid", raw |-> [t |-> "null", o |-> NoObj]]}

\* a slot triggered from the tray or the overlay menu can be delivered
CanTrigger == IF stack = <<>> THEN TRUE ELSE Head(stack).pc \in {"pe1", "pe2"}

\* show_settings from the accepted dialog on: the new config is stored and
\* saved, then applied to the overlay, the listener and the engine
\*   "ok"         save_config returns
\*   "save_fail"  save_config raises: the slot is left after "self.cfg = new_cfg"
ShowSettingsFrom(choices) ==
    /\ CanTrigger
    /\ \E new \in choices, outcome \in {"ok", "save_fail"} :
         /\ cfg' = new
         /\ workers' = Unshare(workers)
         /\ IF outcome = "ok"
              THEN /\ disk' = SaveConfig(new)
                   /\ indicator' = "idle"
                   /\ hotkey' = StringToKey(new.hotkey)
                   /\ model' = "none"
                   /\ UNCHANGED faults
              ELSE /\ faults < MaxFaults
                   /\ faults' = faults + 1
                   /\ disk' \in FailedSave(disk)
                   /\ UNCHANGED <<indicator, hotkey, model>>
    /\ UNCHANGED <<rec, dev, nblocks, ghost, client>>
    /\ UNCHANGED <<held, queue, stack, transcribing, clipboard, keys, notes>>

\* show_settings accepted with the dialog's model and show-bar boxes changed
ShowSettings == ShowSettingsFrom(SettingsChoices(cfg))

\* toggle_bar: the menu action's check mark mirrors cfg.show_bar (set at
\* lines 666 and 844) unless a show_settings was left by an exception
ToggleBar ==
    /\ CanTrigger
    /\ \E checked \in BOOLEAN, outcome \in {"ok", "save_fail"} :
         /\ checked # cfg.show_bar \/ faults > 0
         /\ cfg' = [cfg EXCEPT !.show_bar = checked]
         /\ workers' = SetShowBar(workers, checked)
         /\ IF outcome = "ok"
              THEN /\ disk' = SaveConfig(cfg')
                   /\ indicator' = "idle"
                   /\ UNCHANGED faults
              ELSE /\ faults < MaxFaults
                   /\ faults' = faults + 1
                   /\ disk' \in FailedSave(disk)
                   /\ UNCHANGED indicator
    /\ UNCHANGED <<rec, dev, nblocks, ghost, client>>
    /\ UNCHANGED <<held, hotkey, queue, stack, transcribing, model,
                   clipboard, keys, notes>>

SetInit ==
    /\ rec = RecorderInit
    /\ dev = DevInit
    /\ nblocks = 0
    /\ faults = 0
    /\ ghost = GhostInit
    /\ client = ClientInit
    /\ AppInit
    /\ cfg = DefaultCfg
    /\ disk = SaveConfig(cfg)
    /\ clipboard = {}

SetNext ==
    \/ Next
    \/ ShowSettings
    \/ ToggleBar

SetSpec == SetInit /\ [][SetNext]_vars

\* ------------------------- JobSpec: settings changes and outstanding jobs
\* show_settings accepted with the dialog's model, language and VAD boxes
\* changed
ShowSpeechSettings == ShowSettingsFrom(SpeechChoices(cfg))

\* the application started with output to the clipboard alone
JobInit ==
    /\ rec = RecorderInit
    /\ dev = DevInit
    /\ nblocks = 0
    /\ faults = 0
    /\ ghost = GhostInit
    /\ client = ClientInit
    /\ AppInit
    /\ cfg = [DefaultCfg EXCEPT !.output_mode = "clipboard"]
    /\ disk = SaveConfig(cfg)
    /\ clipboard = {}

JobNext ==
    \/ \E k \in Keys : KeyDown(k)
    \/ \E k \in Keys : KeyUp(k)
    \/ StopClick
    \/ AudioCallback
    \/ OnPttPressed
    \/ PressedOpen
    \/ OnPttReleased("released")
    \/ OnPttReleased("stop")
    \/ ReleasedHalt
    \/ WorkerRun
    \/ OnTranscribed
    \/ OnTranscribeFailed
    \/ ShowSpeechSettings
    \/ ToggleBar

JobSpec == JobInit /\ [][JobNext]_vars

\* ------------------------------------ KeySpec: the hotkey is changed
\* SettingsDialog.updated_config(): the dialog changes the hotkey here
HotkeyChoices(c) == {[c EXCEPT !.hotkey = s] : s \in NamedKeys}

\* show_settings accepted with the dialog's hotkey box changed
ShowHotkeySettings == ShowSettingsFrom(HotkeyChoices(cfg))

KeyNext ==
    \/ \E k \in NamedKeys : KeyDown(k)
    \/ \E k \in NamedKeys : KeyUp(k)
    \/ StopClick
    \/ AudioCallback
    \/ OnPttPressed
    \/ PressedOpen
    \/ OnPttReleased("released")
    \/ OnPttReleased("stop")
    \/ ReleasedHalt
    \/ WorkerRun
    \/ OnTranscribed
    \/ PasteSend
    \/ PasteDone
    \/ OnTranscribeFailed
    \/ ShowHotkeySettings

KeySpec == SetInit /\ [][KeyNext]_vars

\* ------------------------------------------- LisSpec: the HotkeyListener
\* HotkeyListener.set_hotkey(s), called by some client of the listener;
\* client records the call
SetHotkey(s) ==
    /\ hotkey' = StringToKey(s)
    /\ client' = [client EXCEPT !.op = "set_hotkey", !.res = <<s>>]
    /\ UNCHANGED <<rec, dev, nblocks, faults, ghost>>
    /\ UNCHANGED <<disk, held, queue, stack, cfg, transcribing, model, workers,
                   indicator, clipboard, keys, notes>>

\* the receiver's event loop delivers the oldest edge to the connected slot,
\* which is not part of this specification
TakeEdge ==
    /\ queue # <<>>
    /\ queue' = Tail(queue)
    /\ UNCHANGED recvars
    /\ UNCHANGED <<disk, held, hotkey, stack, cfg, transcribing, model, workers,
                   indicator, clipboard, keys, notes>>

LisInit ==
    /\ rec = RecorderInit
    /\ dev = DevInit
    /\ nblocks = 0
    /\ faults = 0
    /\ ghost = GhostInit
    /\ client = ClientInit
    /\ AppInit
    /\ cfg = DefaultCfg
    /\ disk = SaveConfig(cfg)
    /\ clipboard = {}

LisNext ==
    \/ \E k \in RawKeys : KeyDown(k)
    \/ \E k \in RawKeys : KeyUp(k)
    \/ \E s \in HotkeyStrings : SetHotkey(s)
    \/ TakeEdge

LisSpec == LisInit /\ [][LisNext]_vars

\* ------------------------------------------------ PttSpec: ptt.py's main()
\* The pynput listener thread runs on_press and on_release one event at a
\* time; client is that thread (pc: where it stands, op: how its last
\* callback ended, res: the audio handed to the engine), queue the raw
\* events of the push-to-talk key it has not handled yet, and
\* cfg.output_mode = "paste" stands for the --paste argument.  An exception
\* that leaves a callback stops the listener (pynput), and listener.join()
\* re-raises it in main: pc "dead".
PttListening == client.pc # "dead"

\* a key-down or an auto-repeat of the push-to-talk key
PttKeyDown ==
    /\ held' = held \cup Keys
    /\ IF PttListening
         THEN CanPost /\ queue' = Append(queue, Msg("down", <<>>))
         ELSE queue' = queue
    /\ UNCHANGED recvars
    /\ UNCHANGED <<disk, hotkey, stack, cfg, transcribing, model, workers, indicator,
                   clipboard, keys, notes>>

\* the key-up of the push-to-talk key
PttKeyUp ==
    /\ held # {}
    /\ held' = {}
    /\ IF PttListening
         THEN CanPost /\ queue' = Append(queue, Msg("up", <<>>))
         ELSE queue' = queue
    /\ UNCHANGED recvars
    /\ UNCHANGED <<disk, hotkey, stack, cfg, transcribing, model, workers, indicator,
                   clipboard, keys, notes>>

\* on_press up to the end of the locked section of rec.start()
PttOnPress ==
    /\ client.pc = "idle"
    /\ queue # <<>> /\ Head(queue).kind = "down"
    /\ queue' = Tail(queue)
    /\ IF rec.recording
         THEN UNCHANGED <<rec, ghost, client>>
         ELSE /\ rec' = StartMark(rec)
              /\ ghost' = GhostStart(ghost)
              /\ client' = [client EXCEPT !.pc = "open", !.op = "none"]
    /\ UNCHANGED <<dev, nblocks, faults>>
    /\ UNCHANGED <<disk, held, hotkey, stack, cfg, transcribing, model, workers,
                   indicator, clipboard, keys, notes>>

\* on_press from the stream calls of rec.start() on; their exception is
\* caught and printed
PttPressOpen ==
    /\ client.pc = "open"
    /\ \E outcome \in {"ok", "ctor_fail", "start_fail"} :
         /\ outcome # "ok" => faults < MaxFaults
         /\ faults' = IF outcome = "ok" THEN faults ELSE faults + 1
         /\ rec' = StartOpen(rec, outcome)
         /\ dev' = DevAfterOpen(dev, rec, outcome)
         /\ ghost' = IF outcome = "ok" THEN ghost ELSE GhostErr(ghost)
         /\ notes' = IF outcome = "ok" THEN notes ELSE Append(notes, "rec")
         /\ client' = [client EXCEPT !.pc = "idle",
                          !.op = IF outcome = "ok" THEN "start" ELSE "start_err"]
    /\ UNCHANGED nblocks
    /\ UNCHANGED <<disk, held, hotkey, queue, stack, cfg, transcribing, model, workers,
                   indicator, clipboard, keys>>

\* on_release up to the end of the first locked section of rec.stop()
PttOnRelease ==
    /\ client.pc = "idle"
    /\ queue # <<>> /\ Head(queue).kind = "up"
    /\ queue' = Tail(queue)
    /\ IF ~rec.recording
         THEN UNCHANGED <<rec, ghost, client>>
         ELSE /\ rec' = StopMark(rec)
              /\ ghost' = GhostStop(ghost)
              /\ client' = [client EXCEPT !.pc = "halt", !.op = "none"]
    /\ UNCHANGED <<dev, nblocks, faults>>
    /\ UNCHANGED <<disk, held, hotkey, stack, cfg, transcribing, model, workers,
                   indicator, clipboard, keys, notes>>

\* on_release after rec.stop() returned audio: "if audio.size == 0: return"
PttAfterStop(audio) ==
    client' = IF Len(audio) = 0
                THEN [client EXCEPT !.pc = "idle", !.op = "no_audio"]
                ELSE [client EXCEPT !.pc = "asr", !.op = "none", !.res = audio]

\* on_release from the stream calls of rec.stop() to the engine call; an
\* exception of stream.stop() or close() leaves the callback
PttReleaseHalt ==
    /\ client.pc = "halt"
    /\ \/ /\ rec.stream = "none"
          /\ rec' = StopDrain(rec)
          /\ PttAfterStop(StopResult(rec))
          /\ UNCHANGED <<dev, ghost, faults>>
       \/ /\ rec.stream # "none"
          /\ rec' = StopDrain(StopStream(rec))
          /\ dev' = [dev EXCEPT !.cur = FALSE]
          /\ PttAfterStop(StopResult(StopStream(rec)))
          /\ UNCHANGED <<ghost, faults>>
       \/ /\ rec.stream # "none"
          /\ faults < MaxFaults
          /\ faults' = faults + 1
          /\ \E still \in {FALSE, dev.cur} : dev' = [dev EXCEPT !.cur = still]
          /\ ghost' = GhostErr(ghost)
          /\ client' = [client EXCEPT !.pc = "dead", !.op = "stop_raised"]
          /\ UNCHANGED rec
    /\ UNCHANGED nblocks
    /\ UNCHANGED <<disk, held, hotkey, queue, stack, cfg, transcribing, model, workers,
                   indicator, clipboard, keys, notes>>

\* on_release whose engine call is inside "try: ... except Exception" that
\* prints and returns
PttEngineRaisedCaught == [client EXCEPT !.pc = "idle", !.op = "asr_raised"]

\* on_release when model.transcribe() or the iteration of its segments
\* raises: nothing catches it
PttEngineRaised == [client EXCEPT !.pc = "dead", !.op = "asr_raised"]

\* on_release from the engine call to pyperclip.copy; an exception of the
\* copy is caught and printed
PttTranscribe ==
    /\ client.pc = "asr"
    /\ \/ \E raw \in RawTexts(client.res) :
            LET text == Strip(raw) IN
              IF text = <<>>
                THEN /\ client' = [client EXCEPT !.pc = "idle", !.op = "empty"]
                     /\ UNCHANGED <<clipboard, notes, faults>>
                ELSE /\ \/ /\ clipboard' = SetText(text)
                           /\ UNCHANGED <<notes, faults>>
                        \/ /\ faults < MaxFaults
                           /\ faults' = faults + 1
                           /\ notes' = Append(notes, "clip")
                           /\ UNCHANGED clipboard
                     /\ client' = IF cfg.output_mode = "paste"
                                    THEN [client EXCEPT !.pc = "paste"]
                                    ELSE [client EXCEPT !.pc = "idle", !.op = "done"]
       \/ /\ faults < MaxFaults
          /\ faults' = faults + 1
          /\ client' = PttEngineRaised
          /\ UNCHANGED <<clipboard, notes>>
    /\ UNCHANGED <<rec, dev, nblocks, ghost>>
    /\ UNCHANGED <<disk, held, hotkey, queue, stack, cfg, transcribing, model, workers,
                   indicator, keys>>

\* on_release: time.sleep and do_paste(); its exception is caught and printed
PttPaste ==
    /\ client.pc = "paste"
    /\ client' = [client EXCEPT !.pc = "idle", !.op = "done"]
    /\ \/ /\ keys' = keys + 1
          /\ UNCHANGED <<notes, faults>>
       \/ /\ faults < MaxFaults
          /\ faults' = faults + 1
          /\ notes' = Append(notes, "paste")
          /\ UNCHANGED keys
    /\ UNCHANGED <<rec, dev, nblocks, ghost>>
    /\ UNCHANGED <<disk, held, hotkey, queue, stack, cfg, transcribing, model, workers,
                   indicator, clipboard>>

\* main() up to the start of the listener: the engine is loaded, the
\* recorder constructed
PttInit ==
    /\ rec = RecorderInit
    /\ dev = DevInit
    /\ nblocks = 0
    /\ faults = 0
    /\ ghost = GhostInit
    /\ client = ClientInit
    /\ AppInit
    /\ cfg \in {DefaultCfg, [DefaultCfg EXCEPT !.output_mode = "clipboard"]}
    /\ disk = SaveConfig(cfg)
    /\ clipboard \in Clipboards

PttNext ==
    \/ PttKeyDown
    \/ PttKeyUp
    \/ AudioCallback
    \/ PttOnPress
    \/ PttPressOpen
    \/ PttOnRelease
    \/ PttReleaseHalt
    \/ PttTranscribe
    \/ PttPaste

PttSpec == PttInit /\ [][PttNext]_vars

\* ------------------------------------------------- CfgSpec: load_config()
\* the process starts with some config file on disk and calls load_config()
\* once (App.__init__); an exception would leave cfg unassigned
BootLoadConfig ==
    /\ client.pc = "boot"
    /\ LET r == LoadConfig(disk) IN
         /\ cfg' = IF r.raised THEN cfg ELSE r.cfg
         /\ client' = [client EXCEPT !.pc = "idle",
                          !.op = IF r.raised THEN "load_raised" ELSE "load"]
    /\ UNCHANGED <<rec, dev, nblocks, faults, ghost>>
    /\ UNCHANGED <<disk, held, hotkey, queue, stack, transcribing, model, workers,
                   indicator, clipboard, keys, notes>>

CfgInit ==
    /\ rec = RecorderInit
    /\ dev = DevInit
    /\ nblocks = 0
    /\ faults = 0
    /\ ghost = GhostInit
    /\ client = [pc |-> "boot", op |-> "none", res |-> <<>>]
    /\ AppInit
    /\ cfg = [k \in ConfigFields |-> "unset"]
    /\ disk \in Files
    /\ clipboard = {}

CfgNext == BootLoadConfig

CfgSpec == CfgInit /\ [][CfgNext]_vars

\* ------------------------------------------------------------------ claims
\* the slot for the oldest pending event of this kind runs in this step
Handles(kind) ==
    /\ queue # <<>>
    /\ Head(queue).kind = kind
    /\ queue' = Tail(queue)

\* worker threads that have not emitted, plus completions not yet handled
Outstanding ==
    Cardinality(workers)
      + Cardinality({i \in DOMAIN queue : queue[i].kind \in {"finished", "failed"}})

\* the session phase, read from the recorder's flag and the controller's flag
Idle == ~rec.recording /\ ~transcribing

\* C1: in no reachable state of the GUI controller is the Recorder capturing
\* (Recorder.recording) while a transcription job is outstanding
\* (App._transcribing), whatever the order of edges, stop requests and
\* completions.
C1_NoCaptureWhileTranscribing == ~(rec.recording /\ transcribing)

\* a job is outstanding, the key is held down again and its pressed edge has
\* been consumed
C1_Witness ==
    /\ transcribing /\ workers # {} /\ ~rec.recording
    /\ held # {} /\ queue = <<>> /\ stack = <<>>

\* C2: at most one TranscriptionJob is outstanding: a worker is never started
\* while an earlier worker has not emitted or its finished/failed signal
\* still waits to be handled.
C2_AtMostOneJob == Outstanding <= 1

\* a second job is outstanding after a first one completed and was pasted
C2_Witness == Outstanding = 1 /\ keys = 1 /\ nblocks = 2

\* C3: a pressed edge handled while a job is outstanding is dropped: the
\* step changes nothing but the queue (no Recorder call, the phase stays
\* Transcribing), and a recording only ever starts in a step that handles a
\* pressed edge while no job is outstanding, so a dropped edge starts none
\* later.
C3_PressedDroppedWhileTranscribing ==
    [][ /\ (Handles("pressed") /\ transcribing) =>
             UNCHANGED <<rec, dev, ghost, stack, transcribing, workers, indicator,
                         model, clipboard, keys, notes, faults>>
        /\ (~rec.recording /\ rec'.recording) =>
             (Handles("pressed") /\ ~transcribing) ]_vars

\* without the bar there is no stop button, so the job was started by a
\* released edge; the key is down again and every pressed edge of this hold
\* was consumed after that released edge, while the job was outstanding
C3_Witness ==
    /\ ~cfg.show_bar /\ transcribing /\ ~rec.recording
    /\ held # {} /\ queue = <<>> /\ stack = <<>>

\* C4: a released edge handled while the session is Idle is a no-op: phase,
\* recorder buffer, indicator and job flag are unchanged and neither
\* Recorder.start() nor Recorder.stop() runs (no slot stays active, the
\* recorder object and the device are untouched).
C4_ReleasedIdleNoOp ==
    [][ (Handles("released") /\ Idle) =>
          UNCHANGED <<rec, dev, ghost, stack, transcribing, workers, indicator,
                      model, clipboard, keys, notes, faults>> ]_vars

\* a released edge is the next event the event loop delivers, in Idle
C4_Witness ==
    /\ stack = <<>> /\ queue # <<>> /\ Head(queue).kind = "released"
    /\ Idle

\* C5: the sequence stop() returns is the concatenation, in arrival order,
\* of exactly the blocks the callback delivered between the matching start()
\* and that stop(), for every interleaving of the callback thread with the
\* two calls.  The window runs from the locked section of start() that set
\* the flag to the locked section of stop() that cleared it: the history
\* variable ghost.win collects every block delivered in it.
C5_StopReturnsWindow ==
    (client.pc = "idle" /\ client.op = "stop") => client.res = Concatenate(ghost.win)

\* stop() returned a capture while another block was delivered outside the
\* window and left out
C5_Witness ==
    /\ client.pc = "idle" /\ client.op = "stop"
    /\ client.res # <<>> /\ nblocks > Len(client.res)

\* C6: what a later stop() returns holds no sample captured in an earlier
\* start/stop cycle, also when a stream call of the earlier cycle raised.
C6_NoSamplesOfEarlierCycle ==
    (client.pc = "idle" /\ client.op = "stop") =>
        Range(client.res) \cap ghost.prev = {}

\* a second cycle returned samples after a first cycle captured some and a
\* stream call raised
C6_Witness ==
    /\ client.pc = "idle" /\ client.op = "stop"
    /\ client.res # <<>> /\ ghost.prev # {} /\ ghost.err

\* the step is a call of start() by the client
StartCalled ==
    /\ client.pc = "idle"
    /\ nblocks' = nblocks
    /\ client'.pc = "open" \/ (client'.pc = "idle" /\ client'.op = "start_noop")

\* C7: start() called while the recorder is already capturing returns at
\* once: the block buffer, the active flag and the stream reference are
\* what they were and no second input stream is opened.
C7_StartIdempotent ==
    [][ (StartCalled /\ rec.recording) =>
          (rec' = rec /\ dev' = dev /\ client'.pc = "idle") ]_vars

\* start() returned early on a recorder that is capturing and holds blocks
C7_Witness ==
    /\ client.pc = "idle" /\ client.op = "start_noop"
    /\ rec.recording /\ rec.frames # <<>> /\ dev.cur

\* the slot on_ptt_released leaves recorder.stop() without an exception
StopReturned ==
    /\ stack # <<>>
    /\ Head(stack).pc = "halt"
    /\ Len(stack') = Len(stack) - 1
    /\ rec'.stream = "none"

\* C8: when no block was captured, stop() returns the empty sequence (its
\* buffer is empty when it is drained), and release handling that gets an
\* empty snapshot starts no job, leaves the job flag clear and ends in Idle
\* with the indicator idle.  A job that is started carries a non-empty
\* snapshot.
C8_EmptySnapshotNoJob ==
    [][ /\ (StopReturned /\ ghost.win = <<>>) =>
             /\ StopResult(rec) = <<>>
             /\ workers' = workers
             /\ ~transcribing' /\ ~rec'.recording
             /\ indicator' = ShowState(cfg, indicator, "idle")
        /\ \A job \in workers' \ workers : job.audio # <<>> ]_vars

\* release handling is about to stop an open, running stream that delivered
\* no block
C8_Witness ==
    /\ stack # <<>> /\ Head(stack).pc = "halt"
    /\ ghost.win = <<>> /\ rec.stream = "open" /\ dev.cur

\* the innermost slot is on_transcribed in paste mode with a clipboard
\* snapshot, and it returns or is left by an exception in this step
PasteSlotEnds ==
    /\ stack # <<>>
    /\ Head(stack).h = "finished"
    /\ Head(stack).saved
    /\ Len(stack') = Len(stack) - 1

\* C9: with output_mode = paste and preserve_clipboard set, once the
\* controller is done with a job-finished event that carried text, the
\* clipboard holds what it held, in every format, just before the output
\* began.
C9_ClipboardRestored ==
    [][ PasteSlotEnds => clipboard' = Head(stack).before ]_vars

\* the same, in the runs where no call has raised
C9_ClipboardRestoredWithoutFaults ==
    [][ (PasteSlotEnds /\ faults' = 0) => clipboard' = Head(stack).before ]_vars

\* C10: a job that finishes with text in clipboard mode leaves exactly the
\* trimmed transcript as the clipboard's text, sends no paste keystroke,
\* returns at once (nothing is left to restore the clipboard) and ends in
\* Idle; a job that finishes with empty text leaves the clipboard alone,
\* shows the "no speech" notification and ends in Idle.
C10_ClipboardModeOutput ==
    [][ Handles("finished") =>
          LET text == Strip(Head(queue).text) IN
            /\ (text # <<>> /\ cfg.output_mode = "clipboard") =>
                 /\ clipboard' = {<<"text/plain", text>>}
                 /\ keys' = keys
                 /\ stack' = stack
                 /\ notes' = notes
                 /\ Idle'
                 /\ indicator' = ShowState(cfg, indicator, "idle")
            /\ text = <<>> =>
                 /\ clipboard' = clipboard
                 /\ notes' = Append(notes, "nospeech")
                 /\ keys' = keys
                 /\ stack' = stack
                 /\ Idle'
                 /\ indicator' = ShowState(cfg, indicator, "idle") ]_vars

\* in clipboard mode one job left its transcript on the clipboard and
\* another ended with the "no speech" notification, no keystroke sent
C10_Witness ==
    /\ cfg.output_mode = "clipboard"
    /\ clipboard = {<<"text/plain", <<"a">>>>}
    /\ notes = <<"nospeech">>
    /\ keys = 0 /\ stack = <<>> /\ Idle

\* C11: when the engine call of the outstanding job failed, the step that
\* handles the failed message reports it (one "transcription error"
\* notification), clears the job flag, leaves the session Idle with the
\* indicator idle, and neither writes the clipboard nor sends a keystroke.
C11_FailureReportedAndIdle ==
    [][ Handles("failed") =>
          /\ notes' = Append(notes, "asr")
          /\ ~transcribing'
          /\ Idle'
          /\ indicator' = "idle"
          /\ clipboard' = clipboard
          /\ keys' = keys ]_vars

\* a failure was the last thing reported, with the bar shown, after audio
\* was captured and before anything was pasted
C11_Witness ==
    /\ notes = <<"asr">> /\ cfg.show_bar /\ indicator = "idle"
    /\ Idle /\ nblocks > 0 /\ keys = 0 /\ clipboard # {}

\* finished/failed messages waiting in a queue
Completions(q) == Cardinality({i \in DOMAIN q : q[i].kind \in {"finished", "failed"}})

\* C12: a worker thread ends by putting exactly one message, finished or
\* failed, on the queue, and such messages come from nowhere else; the step
\* that handles one leaves the job flag false; and under fair scheduling
\* every state with the job flag set is followed by an Idle state.
C12_OneCompletionThenIdle ==
    /\ [][ /\ Cardinality(workers') < Cardinality(workers) =>
                /\ Cardinality(workers') = Cardinality(workers) - 1
                /\ Completions(queue') = Completions(queue) + 1
           /\ Completions(queue') > Completions(queue) =>
                /\ Cardinality(workers') = Cardinality(workers) - 1
                /\ Completions(queue') = Completions(queue) + 1
           /\ Completions(queue') < Completions(queue) =>
                /\ Handles("finished") \/ Handles("failed")
                /\ Completions(queue') = Completions(queue) - 1
                /\ ~transcribing' ]_vars
    /\ (transcribing ~> Idle)

\* a job's failure was handled and a later job is outstanding
C12_Witness ==
    /\ notes # <<>> /\ notes[Len(notes)] = "asr"
    /\ transcribing /\ workers # {}

\* C13: the controller handles edges and completion messages one at a time:
\* a step in which on_ptt_pressed, on_ptt_released, on_transcribed or
\* on_transcribe_failed begins is taken only when no slot is still active.
C13_NoReentrancy ==
    [][ (\E kind \in {"pressed", "released", "finished", "failed"} : Handles(kind)) =>
          stack = <<>> ]_vars

\* a pressed edge is put on the queue in this step
PressedEmitted ==
    /\ Len(queue') = Len(queue) + 1
    /\ queue'[Len(queue')].kind = "pressed"

\* C14: the listener emits at most one pressed edge per press-and-hold: a
\* pressed edge is emitted only for a key-down that finds the hotkey not
\* held, so the key-downs of auto-repeat emit none.
C14_OnePressedPerHold ==
    [][ PressedEmitted => hotkey \notin held ]_vars

\* the file holds no JSON object: it is missing, unreadable, not JSON, or JSON
\* of another type
NoConfigObject == disk.kind # "json" \/ disk.raw.t # "obj"

\* C15: load_config() never raises, and for a config file that is missing,
\* unreadable, not valid JSON or not a JSON object the config it returns is
\* the documented default in every field.
C15_LoadConfigDefaults ==
    /\ client.op # "load_raised"
    /\ (client.op = "load" /\ NoConfigObject) =>
          cfg = [hotkey |-> "f9", model |-> "base", language |-> "auto",
                 device |-> "cpu", compute_type |-> "int8", output_mode |-> "paste",
                 preserve_clipboard |-> TRUE, vad_filter |-> FALSE,
                 always_on_top |-> TRUE, show_bar |-> TRUE,
                 remember_position |-> FALSE, window_pos |-> "none"]

\* load_config() returned for a file that holds a JSON list
C15_Witness ==
    /\ client.op = "load" /\ disk.kind = "json" /\ disk.raw.t = "list"
    /\ cfg.hotkey = "f9"

\* a stream call of recorder.start() raises inside on_ptt_pressed in this step
MicFailed ==
    /\ stack # <<>>
    /\ Head(stack).pc = "open"
    /\ faults' = faults + 1

\* C16: when opening or starting the stream fails in recorder.start() during
\* a pressed edge, the failure is notified and the session is Idle after
\* the step: the recorder is not capturing, no job is outstanding or
\* started, the indicator is idle and no event is queued for a retry.
C16_MicFailureReturnsToIdle ==
    [][ MicFailed =>
          /\ notes' = Append(notes, "mic")
          /\ ~rec'.recording
          /\ ~transcribing' /\ workers' = workers
          /\ indicator' = "idle"
          /\ queue' = queue ]_vars

\* the same without the clause on the recorder's flag
C16_MicFailureReportedNoJob ==
    [][ MicFailed =>
          /\ notes' = Append(notes, "mic")
          /\ ~transcribing' /\ workers' = workers
          /\ indicator' = "idle"
          /\ queue' = queue ]_vars

\* a call of the output path raises in this step: a format copy in
\* _clone_mime_data, keyboard.Controller(), or a key press or release
OutputFailed ==
    /\ faults' = faults + 1
    /\ \/ Handles("finished")
       \/ stack # <<>> /\ Head(stack).pc = "pe1" /\ queue' = queue

\* the innermost slot is on_transcribed in paste mode and it returns, or is
\* left by an exception, in this step
FinishedSlotEnds ==
    /\ stack # <<>>
    /\ Head(stack).h = "finished"
    /\ Len(stack') = Len(stack) - 1

\* C17: a failure of clipboard access or of key injection during output is
\* reported (a notification is shown in the step where the call fails), and
\* the job-finished transition still completes: the job flag is cleared
\* when the event is handled and the indicator is set to idle when the slot
\* ends.
C17_OutputFailureReported ==
    [][ /\ OutputFailed => Len(notes') = Len(notes) + 1
        /\ Handles("finished") => ~transcribing'
        /\ FinishedSlotEnds => indicator' = ShowState(cfg, indicator, "idle") ]_vars

\* the part on the indicator alone
C17_IndicatorIdleAfterOutput ==
    [][ FinishedSlotEnds => indicator' = ShowState(cfg, indicator, "idle") ]_vars

\* the part on the job flag alone
C17_FlagClearedOnFinished ==
    [][ Handles("finished") => ~transcribing' ]_vars

\* C18: every settings change, by the settings dialog or by the show-bar
\* toggle, leaves the engine not constructed, so a job started afterwards
\* runs on an engine built from the config in force when it is started.
C18_EngineResetOnSettingsChange ==
    [][ /\ cfg' # cfg => model' = "none"
        /\ \A job \in workers' \ workers : job.model = cfg.model ]_vars

\* the output steps of an active on_transcribed slot are in the stated order
OrderedLog(f) ==
    /\ f.saved = cfg.preserve_clipboard
    /\ f.saved => f.old \subseteq f.before
    /\ \/ f.pc = "pe1" /\ f.log = LogToSettle(f.saved)
       \/ /\ f.pc = "pe2"
          /\ f.saved
          /\ \E sent \in {Keystroke, BrokenKeystroke} :
               f.log = LogToSettle(TRUE) \o sent \o <<"settle", "restore">>

\* an on_transcribed slot that took no snapshot returns in this step
UnsavedSlotEnds ==
    /\ FinishedSlotEnds
    /\ ~Head(stack).saved

\* C19: in paste mode the output steps are taken in the order snapshot (if
\* preserve_clipboard), transcript write, settle, keystroke (modifier down,
\* v down, v up, modifier up) and, only with a snapshot, settle and restore:
\* the snapshot holds nothing written by the slot, a restore is logged only
\* after the keystroke, and a slot without snapshot restores nothing and
\* ends with the clipboard holding its transcript.
C19_PasteStepOrder ==
    [][ /\ \A i \in DOMAIN stack' :
             stack'[i].h = "finished" => OrderedLog(stack'[i])
        /\ UnsavedSlotEnds =>
             /\ clipboard' = clipboard
             /\ clipboard' = SetText(Head(stack).text) ]_vars

\* the same without the clause that the clipboard ends holding the transcript
C19_PasteStepOrderOnly ==
    [][ /\ \A i \in DOMAIN stack' :
             stack'[i].h = "finished" => OrderedLog(stack'[i])
        /\ UnsavedSlotEnds => clipboard' = clipboard ]_vars

\* C20: stop() clears the flag in its first locked section, before it stops
\* the stream, and the callback tests the flag under the same lock: a
\* callback that takes the lock with the flag clear appends nothing, the
\* stream is stopped only with the flag clear, and from the flag's clearing
\* to the drain the buffer is not modified, so the drain returns the buffer
\* as it was when the flag was cleared.
C20_FlagGatesCallback ==
    [][ /\ (nblocks' = nblocks + 1 /\ ~rec.recording) => rec'.frames = rec.frames
        /\ (client.pc = "halt" /\ client'.pc = "halt") => rec'.frames = rec.frames
        /\ (client.pc = "halt" /\ client'.pc = "idle") => ~rec.recording
        /\ (client.pc = "halt" /\ client'.op = "stop") =>
              /\ client'.res = Concatenate(rec.frames)
              /\ client'.res = Concatenate(ghost.win) ]_vars

\* in the first capture, stop() has cleared the flag and not yet drained,
\* the stream is still running, and a block delivered since was discarded
C20_Witness ==
    /\ client.pc = "halt" /\ dev.cur /\ ghost.prev = {}
    /\ rec.frames # <<>> /\ nblocks > Len(rec.frames)

\* a release slot's step in which the construction of the engine raised
EngineLoadRaised == StopReturned /\ faults' = faults + 1

\* C21: when the construction of the engine fails during release handling,
\* the failure is reported, no worker is started, the flag is taken back so
\* that the controller is Idle, and the engine stays not constructed; a job
\* started later constructs it from the configuration.
C21_EngineFailureLeavesIdle ==
    [][ /\ EngineLoadRaised =>
             /\ notes' = Append(notes, "model")
             /\ workers' = workers
             /\ Idle'
             /\ indicator' = ShowState(cfg, indicator, "idle")
             /\ model = "none" /\ model' = "none"
        /\ (model = "none" /\ workers' # workers) =>
             /\ model' = cfg.model
             /\ \A job \in workers' \ workers : job.model = cfg.model ]_vars

\* the construction failed once, and a later recording was submitted with an
\* engine constructed on the second attempt
C21_Witness ==
    /\ \E i \in DOMAIN notes : notes[i] = "model"
    /\ workers # {} /\ model # "none" /\ transcribing

\* the file holds a JSON object
ConfigObject == disk.kind = "json" /\ disk.raw.t = "obj"

\* C22: load_config() of a persisted config object keeps the value of every
\* AppConfig field the object carries, takes the default for every field it
\* lacks and ignores every other key; only when output_mode is absent and
\* the legacy paste_after_copy is present, output_mode is paste for true and
\* clipboard for false.
C22_LoadConfigObject ==
    (client.op = "load" /\ ConfigObject) =>
       LET o == disk.raw.o IN
         /\ DOMAIN cfg = DOMAIN DefaultCfg
         /\ \A k \in DOMAIN cfg :
              IF k \in DOMAIN o THEN cfg[k] = o[k]
              ELSE IF k = "output_mode" /\ "paste_after_copy" \in DOMAIN o
                THEN cfg[k] = (IF o["paste_after_copy"] THEN "paste" ELSE "clipboard")
                ELSE cfg[k] = DefaultCfg[k]

\* load_config() returned for an object that carries output_mode clipboard,
\* the legacy field set to true and a key AppConfig does not know
C22_Witness ==
    /\ client.op = "load" /\ ConfigObject
    /\ {"output_mode", "paste_after_copy", "junk"} \subseteq DOMAIN disk.raw.o
    /\ disk.raw.o["paste_after_copy"]
    /\ cfg.output_mode = "clipboard"

\* what handling a released edge does to a capturing recorder: the flag is
\* cleared and the slot goes on to halt the stream
ReleaseEffect ==
    /\ rec' = [rec EXCEPT !.recording = FALSE]
    /\ Len(stack') = Len(stack) + 1
    /\ Head(stack') = Frame("released", "halt", {}, FALSE, {})
    /\ UNCHANGED <<transcribing, model, workers, indicator, notes, clipboard,
                   keys, cfg, disk, held, hotkey, dev, nblocks, faults>>

\* C23: a stop request handled while the recorder is capturing does what a
\* released edge does in the same state, and the slot then submits a job
\* iff the snapshot is not empty; a stop request handled while the recorder
\* is not capturing (Idle, Transcribing) changes nothing and cancels no job.
C23_StopActsAsRelease ==
    [][ /\ (Handles("stop") /\ rec.recording) => ReleaseEffect
        /\ (Handles("released") /\ rec.recording) => ReleaseEffect
        /\ (Handles("stop") /\ ~rec.recording) =>
              UNCHANGED <<recvars, held, hotkey, stack, cfg, transcribing, model,
                          workers, indicator, clipboard, keys, notes, disk>>
        /\ (StopReturned /\ faults' = faults) =>
              (workers' # workers <=> Len(rec.frames) > 0) ]_vars

\* a stop request is the next event to handle while the recorder is capturing
\* and has taken a block
C23_Witness ==
    /\ stack = <<>> /\ queue # <<>> /\ Head(queue).kind = "stop"
    /\ rec.recording /\ rec.frames # <<>> /\ ~transcribing

\* C25: the busy branch of release handling is never taken: Recorder.stop()
\* never returns a non-empty snapshot to on_ptt_released while the flag of an
\* outstanding job is set.
C25_BusyDefenceUnreached ==
    [][ StopReturned => ~(Len(rec.frames) > 0 /\ Busy) ]_vars

\* stop() is about to return a block to a release slot that runs nested in
\* the paste of an earlier transcript
C25_Witness ==
    /\ Len(stack) > 1 /\ Head(stack).pc = "halt"
    /\ rec.frames # <<>> /\ ~transcribing

\* the indicator that matches the session phase
PhaseIndicator ==
    IF rec.recording THEN "rec" ELSE IF transcribing THEN "work" ELSE "idle"

\* C26: whenever the controller is between handlers and the bar is shown,
\* the indicator agrees with the session phase: rec iff the recorder is
\* capturing, work iff a job is outstanding, idle otherwise.
C26_IndicatorMatchesPhase ==
    (stack = <<>> /\ cfg.show_bar) => indicator = PhaseIndicator

\* C26 for runs in which no call has failed
C26_IndicatorMatchesPhaseWithoutFaults ==
    (stack = <<>> /\ cfg.show_bar /\ faults = 0) => indicator = PhaseIndicator

\* two worker records describe the same job: the audio, the engine instance,
\* the language hint and the VAD flag the worker's run() will use
SameJob(j, k) ==
    /\ j.audio = k.audio /\ j.model = k.model
    /\ j.cfg.language = k.cfg.language /\ j.cfg.vad_filter = k.cfg.vad_filter

\* C28: a job keeps the audio, the engine instance, the language hint and
\* the VAD flag it was created with, whatever settings update is accepted
\* while it is outstanding; a settings update removes no job; a job that is
\* new in a step has the settings in force in that step.
C28_SettingsLeaveJobAlone ==
    [][ /\ \A k \in workers' :
             \/ \E j \in workers : SameJob(j, k)
             \/ /\ k.cfg.language = cfg.language
                /\ k.cfg.vad_filter = cfg.vad_filter
                /\ k.model = model' /\ model' # "none"
                /\ cfg' = cfg
        /\ cfg' # cfg => \A j \in workers : \E k \in workers' : SameJob(j, k) ]_vars

\* a job is outstanding whose language hint is no longer the configured one,
\* and the engine it holds is no longer the controller's
C28_Witness ==
    \E j \in workers :
       /\ j.cfg.language # cfg.language /\ j.cfg.vad_filter # cfg.vad_filter
       /\ j.model # model /\ ~j.shared

\* a released edge is emitted in this step
ReleasedEmitted ==
    /\ Len(queue') = Len(queue) + 1
    /\ queue'[Len(queue')].kind = "released"

\* the keys that went down or up in this step
Moved == (held' \ held) \cup (held \ held')

\* C24: set_hotkey(newKey) leaves the listener running with the keys that
\* are held and the edges already emitted untouched, and for a newKey that
\* names a key every key event handled after the call is matched against
\* that key only: a key-down or key-up of another key, the old one included,
\* emits no edge, a key-down of newKey emits pressed and its key-up released.
C24_RebindTakesEffect ==
    [][ /\ client' # client => UNCHANGED <<held, queue>>
        /\ (client' = client /\ client.op = "set_hotkey" /\ client.res[1] \in RawKeys) =>
             LET newKey == client.res[1] IN
               /\ held' # held =>
                    IF Moved = {newKey}
                      THEN (IF newKey \in held' THEN PressedEmitted ELSE ReleasedEmitted)
                      ELSE queue' = queue
               /\ (PressedEmitted \/ ReleasedEmitted) =>
                    (Moved \subseteq {newKey} /\ newKey \in held \cup held') ]_vars

\* after set_hotkey("f8") the old key f9 is held with no edge emitted, and
\* the new key is held with its pressed edge emitted
C24_Witness ==
    /\ client.op = "set_hotkey" /\ client.res = <<"f8">>
    /\ held = {"f9", "f8"}
    /\ queue = <<Msg("pressed", <<>>)>>

\* C27: a recording does not outlive the key press that started it: when no
\* key is held, no event is pending and no handler is running, the recorder
\* is not capturing, also when the hotkey was changed between the key-down
\* and the key-up.
C27_NoRecordingWithoutKey ==
    (held = {} /\ queue = <<>> /\ stack = <<>>) => ~rec.recording

\* ptt.py: the engine call of on_release is running
EngineRunning == client.pc = "asr"

\* ptt.py: the engine call raises in this step
EngineFails == EngineRunning /\ client'.op = "asr_raised"

\* C29: in ptt.py the recorder is not capturing while the engine call runs,
\* the listener starts no callback, and so no second engine call, while one
\* runs, and a failure of the engine call leaves the listener ready for the
\* next pressed edge with the recorder not capturing.
C29_PttEngineCallIsolated ==
    [][ /\ EngineRunning => ~rec.recording
        /\ EngineRunning => Len(queue') >= Len(queue)
        /\ EngineFails => (client'.pc = "idle" /\ ~rec'.recording) ]_vars

\* C29 without its statement about a failed engine call
C29_PttNoCaptureDuringEngineCall ==
    [][ /\ EngineRunning => ~rec.recording
        /\ EngineRunning => Len(queue') >= Len(queue) ]_vars

====
